---- MODULE Spec2Model ----
(***************************************************************************)
(* btrfs-snapsync (src/src/main.rs): scan two directory trees, diff them   *)
(* into a list of likely moves (CopyFile), and replay every move as a      *)
(* reflink copy between a second pair of trees.                            *)
(*                                                                         *)
(* Spec      : scan_dir (twice) followed by diff, the hash map drained in  *)
(*             an arbitrary order.                                         *)
(* SpecApply : the loop of main over the copies, with clone_paths and      *)
(*             clone_file, every system call free to fail.                 *)
(***************************************************************************)
EXTENDS Integers, Sequences, FiniteSets, TLC

\* ------------------------------------------------------------------ bounds
\* Most files a scanned tree holds.
MaxFiles == 2
\* Most entries of the copy list main iterates over (SpecApply).
MaxCopies == 2

\* File names, the one directory name, file lengths and modification times.
FileNames == {1, 2}
DirNames == {1}
Lens == {1, 2}
Mtimes == {1, 2}

\* ------------------------------------------------------------------- paths
\* A relative path is the sequence of its components (std::path::Path).
Paths == {<<n>> : n \in FileNames} \cup {<<d, n>> : d \in DirNames, n \in FileNames}

\* The paths a lookup may be asked about: the empty path has no file name.
QueryPaths == Paths \cup {<<>>}

IsPrefix(p, q) == Len(p) <= Len(q) /\ SubSeq(q, 1, Len(p)) = p

\* A set of files of one tree: no file lies below another file.
PrefixFree(S) == \A p \in S : \A q \in S : p # q => ~IsPrefix(p, q)

\* Ord of Path: component by component, a proper prefix first.
RECURSIVE PathLess(_, _)
PathLess(p, q) ==
    IF q = <<>> THEN FALSE
    ELSE IF p = <<>> THEN TRUE
    ELSE IF Head(p) # Head(q) THEN Head(p) < Head(q)
    ELSE PathLess(Tail(p), Tail(q))

PathLeq(p, q) == p = q \/ PathLess(p, q)

\* Option<T>: None is the empty set, Some(x) the singleton.
None == {}
Some(x) == {x}

\* Path::file_name.
FileName(path) == IF path = <<>> THEN None ELSE Some(path[Len(path)])

\* struct FileInfo, and its derived Ord (len, then mtime).
FileInfo == [len : Lens, mtime : Mtimes]

InfoLess(a, b) == a.len < b.len \/ (a.len = b.len /\ a.mtime < b.mtime)

\* struct CopyFile, and its derived Ord (src, then dst).
CopyFile == [src : Paths, dst : Paths]

CopyLess(a, b) == PathLess(a.src, b.src) \/ (a.src = b.src /\ PathLess(a.dst, b.dst))

\* ----------------------------------------------------------------- sorting
\* Vec<PathBuf>::sort.
RECURSIVE InsertPath(_, _)
InsertPath(x, s) ==
    IF s = <<>> THEN <<x>>
    ELSE IF PathLess(x, Head(s)) THEN <<x>> \o s
    ELSE <<Head(s)>> \o InsertPath(x, Tail(s))

RECURSIVE SortPaths(_)
SortPaths(s) == IF s = <<>> THEN <<>> ELSE InsertPath(Head(s), SortPaths(Tail(s)))

RECURSIVE InsertCopy(_, _)
InsertCopy(x, s) ==
    IF s = <<>> THEN <<x>>
    ELSE IF CopyLess(x, Head(s)) THEN <<x>> \o s
    ELSE <<Head(s)>> \o InsertCopy(x, Tail(s))

RECURSIVE SortCopiesRec(_)
SortCopiesRec(s) == IF s = <<>> THEN <<>> ELSE InsertCopy(Head(s), SortCopiesRec(Tail(s)))

\* A slip: the list is returned in the order the hash map was drained.
SortCopiesUnsorted(s) == s

\* copies.sort().
SortCopies(s) == SortCopiesRec(s)

\* ---------------------------------------------------------------- scan_dir
\* A tree on disk: its regular files, each with its FileInfo.
Trees ==
    UNION {[S -> FileInfo] : S \in {T \in SUBSET Paths : Cardinality(T) <= MaxFiles /\ PrefixFree(T)}}

\* The orders in which the directory walk may yield the files of a tree.
Walks(tree) ==
    {w \in UNION {[1..n -> DOMAIN tree] : n \in {Cardinality(DOMAIN tree)}} :
        \A i \in DOMAIN w : \A j \in DOMAIN w : i # j => w[i] # w[j]}

\* A slip: the bucket of key k is replaced, not pushed onto.
PushReplace(map, k, p) == [x \in DOMAIN map \cup {k} |-> IF x = k THEN <<p>> ELSE map[x]]

\* HashMap entry: push onto the bucket of key k, or start one.
Push(map, k, p) ==
    IF k \in DOMAIN map THEN [map EXCEPT ![k] = Append(@, p)] ELSE map @@ (k :> <<p>>)

EmptyMap == [x \in {} |-> <<>>]

EmptyScan == [entries_size_mtime |-> EmptyMap, entries_size |-> EmptyMap, entries_name |-> EmptyMap]

\* The body of the walk loop for one regular file.
ScanEntry(acc, rel_path, file_info) ==
    [entries_size_mtime |-> Push(acc.entries_size_mtime, file_info, rel_path),
     entries_size       |-> Push(acc.entries_size, file_info.len, rel_path),
     entries_name       |-> Push(acc.entries_name, rel_path[Len(rel_path)], rel_path)]

RECURSIVE ScanWalk(_, _, _)
ScanWalk(tree, walk, acc) ==
    IF walk = <<>> THEN acc
    ELSE ScanWalk(tree, Tail(walk), ScanEntry(acc, Head(walk), tree[Head(walk)]))

\* Sort entries to ensure reproducible results.
SortBuckets(map) == [k \in DOMAIN map |-> SortPaths(map[k])]

\* scan_dir on a tree whose walk yields the files in the order walk.
ScanDir(tree, walk) ==
    LET acc == ScanWalk(tree, walk, EmptyScan)
    IN  [entries_size_mtime |-> SortBuckets(acc.entries_size_mtime),
         entries_size       |-> SortBuckets(acc.entries_size),
         entries_name       |-> SortBuckets(acc.entries_name)]

\* ------------------------------------------------------------ DirScan::get
\* A slip: the size index is consulted before the exact one.
GetSizeFirst(scan, path, info) ==
    IF info.len \in DOMAIN scan.entries_size
    THEN Some(scan.entries_size[info.len])
    ELSE IF info \in DOMAIN scan.entries_size_mtime
    THEN Some(scan.entries_size_mtime[info])
    ELSE IF FileName(path) # None /\ (CHOOSE n \in FileName(path) : TRUE) \in DOMAIN scan.entries_name
    THEN Some(scan.entries_name[CHOOSE n \in FileName(path) : TRUE])
    ELSE None

Get(scan, path, info) ==
    IF info \in DOMAIN scan.entries_size_mtime
    THEN Some(scan.entries_size_mtime[info])
    ELSE IF info.len \in DOMAIN scan.entries_size
    THEN Some(scan.entries_size[info.len])
    ELSE IF FileName(path) # None /\ (CHOOSE n \in FileName(path) : TRUE) \in DOMAIN scan.entries_name
    THEN Some(scan.entries_name[CHOOSE n \in FileName(path) : TRUE])
    ELSE None

Contains(s, x) == \E i \in DOMAIN s : s[i] = x

\* A slip: only the first candidate is compared with the path.
ContainsFirstOnly(s, x) == s # <<>> /\ s[1] = x

\* slice::contains.
SliceContains(s, x) == Contains(s, x)

\* -------------------------------------------------------------------- state
VARIABLES
    fs_base_src,    \* the tree <src-base> on disk: path -> FileInfo
    fs_target_src,  \* the tree <src-target> on disk
    base,           \* entries_base: the DirScan of <src-base>
    target,         \* entries_target, its entries_size_mtime drained by diff
    cur,            \* diff: the bucket (info, paths) being drained, or None
    copies,         \* diff: the Vec<CopyFile>; main: the list iterated over
    printed,        \* the paths diff has printed as MISSING, in order
    pc,             \* where the program is
    dry_run,        \* main: the mode
    idx,            \* main: the index of the copy the loop is at
    fs,             \* the destination trees on disk: absolute path -> node
    fs0,            \* fs as it was when the run started
    fs_call,        \* fs as it was when clone_paths was entered
    steps,          \* the system calls of the current clone_paths, with outcome
    attempts,       \* the copy indices clone_paths was invoked for, in order
    failed_at,      \* the copy index whose clone_paths failed, or 0
    ioctl_result,   \* clone_file: what ioctl returned, or None
    clone_ret,      \* clone_file: what it returned ("ok", "err"), or "none"
    out             \* the "src -> dst" lines main has printed

vars == <<fs_base_src, fs_target_src, base, target, cur, copies, printed, pc, dry_run,
          idx, fs, fs0, fs_call, steps, attempts, failed_at, ioctl_result, clone_ret, out>>

diffVars == <<fs_base_src, fs_target_src, base, target, cur, copies, printed>>

applyVars == <<dry_run, idx, fs, fs0, fs_call, steps, attempts, failed_at, ioctl_result,
               clone_ret, out>>

\* -------------------------------------------------------------------- diff
\* The match on base.get(&path, &info): which arm a target path takes.
Classify(scan, path, info) ==
    LET r == Get(scan, path, info)
    IN  IF r = None THEN "missing"
        ELSE IF SliceContains(CHOOSE b \in r : TRUE, path) THEN "unchanged"
        ELSE "copy"

\* The CopyFile built in the last arm: src is base_paths[0].
MakeCopy(scan, path, info) ==
    [src |-> (CHOOSE b \in Get(scan, path, info) : TRUE)[1], dst |-> path]

\* The state after main has scanned both trees and entered diff. The apply
\* part of the program has not started: its variables are idle.
Init ==
    /\ fs_base_src \in Trees
    /\ fs_target_src \in Trees
    /\ \E wb \in Walks(fs_base_src) : base = ScanDir(fs_base_src, wb)
    /\ \E wt \in Walks(fs_target_src) : target = ScanDir(fs_target_src, wt)
    /\ cur = None
    /\ copies = <<>>
    /\ printed = <<>>
    /\ pc = "diff"
    /\ dry_run = TRUE
    /\ idx = 1
    /\ fs = << >>
    /\ fs0 = << >>
    /\ fs_call = << >>
    /\ steps = << >>
    /\ attempts = << >>
    /\ failed_at = 0
    /\ ioctl_result = None
    /\ clone_ret = "none"
    /\ out = << >>

\* The outer loop takes the next (info, paths) of the drain: any bucket left.
DrainBucket ==
    /\ pc = "diff"
    /\ cur = None
    /\ \E info \in DOMAIN target.entries_size_mtime :
        /\ cur' = Some([info |-> info, paths |-> target.entries_size_mtime[info]])
        /\ target' = [target EXCEPT !.entries_size_mtime =
                        [k \in DOMAIN @ \ {info} |-> @[k]]]
    /\ UNCHANGED <<fs_base_src, fs_target_src, base, copies, printed, pc>>
    /\ UNCHANGED applyVars

CurBucket == CHOOSE c \in cur : TRUE

\* The inner loop moves to the next path of the bucket, or ends the bucket.
Advance ==
    cur' = IF Len(CurBucket.paths) = 1 THEN None
           ELSE Some([CurBucket EXCEPT !.paths = Tail(@)])

DiffMissing ==
    /\ pc = "diff"
    /\ cur # None
    /\ Classify(base, Head(CurBucket.paths), CurBucket.info) = "missing"
    /\ printed' = Append(printed, Head(CurBucket.paths))
    /\ Advance
    /\ UNCHANGED <<fs_base_src, fs_target_src, base, target, copies, pc>>
    /\ UNCHANGED applyVars

DiffUnchanged ==
    /\ pc = "diff"
    /\ cur # None
    /\ Classify(base, Head(CurBucket.paths), CurBucket.info) = "unchanged"
    /\ Advance
    /\ UNCHANGED <<fs_base_src, fs_target_src, base, target, copies, printed, pc>>
    /\ UNCHANGED applyVars

DiffCopy ==
    /\ pc = "diff"
    /\ cur # None
    /\ Classify(base, Head(CurBucket.paths), CurBucket.info) = "copy"
    /\ copies' = Append(copies, MakeCopy(base, Head(CurBucket.paths), CurBucket.info))
    /\ Advance
    /\ UNCHANGED <<fs_base_src, fs_target_src, base, target, printed, pc>>
    /\ UNCHANGED applyVars

\* The drain is over: sort the copies and return them.
DiffReturn ==
    /\ pc = "diff"
    /\ cur = None
    /\ DOMAIN target.entries_size_mtime = {}
    /\ copies' = SortCopies(copies)
    /\ pc' = "diffed"
    /\ UNCHANGED <<fs_base_src, fs_target_src, base, target, cur, printed>>
    /\ UNCHANGED applyVars

Next == DrainBucket \/ DiffMissing \/ DiffUnchanged \/ DiffCopy \/ DiffReturn

Spec == Init /\ [][Next]_vars

\* --------------------------------------------------- properties of the diff
Diffed == pc = "diffed"

Range(s) == {s[i] : i \in DOMAIN s}

\* The files of a tree with a given FileInfo, length, or file name.
WithInfo(tree, info) == {p \in DOMAIN tree : tree[p] = info}
WithLen(tree, len) == {p \in DOMAIN tree : tree[p].len = len}
WithName(tree, name) == {p \in DOMAIN tree : p[Len(p)] = name}

\* The paths of S in ascending order.
Ascending(S) ==
    CHOOSE s \in [1..Cardinality(S) -> S] :
        \A i \in DOMAIN s : \A j \in DOMAIN s : i < j => PathLess(s[i], s[j])

\* The candidates the fallback chain owes for (path, info) in a tree: the files
\* with that FileInfo, else those of that length, else those of that name.
Candidates(tree, path, info) ==
    IF WithInfo(tree, info) # {} THEN Some(Ascending(WithInfo(tree, info)))
    ELSE IF WithLen(tree, info.len) # {} THEN Some(Ascending(WithLen(tree, info.len)))
    ELSE IF path # <<>> /\ WithName(tree, path[Len(path)]) # {}
    THEN Some(Ascending(WithName(tree, path[Len(path)])))
    ELSE None

\* A file with the same relative path and the same FileInfo in both trees.
SameInBoth(p) ==
    /\ p \in DOMAIN fs_base_src
    /\ p \in DOMAIN fs_target_src
    /\ fs_base_src[p] = fs_target_src[p]

\* C1 as stated: a file with the same path, size and mtime in base and target
\* is never reported MISSING and appears in no copy, as source or destination.
C1_NeverInCopies ==
    \A p \in Paths : SameInBoth(p) =>
        /\ p \notin Range(printed)
        /\ \A c \in Range(copies) : c.dst # p /\ c.src # p

\* C1 amended: a file with the same path, size and mtime in base and target
\* is never reported MISSING and is never the destination of a copy.
C1_UnchangedNotClassified ==
    \A p \in Paths : SameInBoth(p) =>
        /\ p \notin Range(printed)
        /\ \A c \in Range(copies) : c.dst # p

C1_Witness ==
    /\ Diffed
    /\ \E p \in Paths : SameInBoth(p) /\ \E c \in Range(copies) : c.src = p

\* C2: after the diff, every target path that is not in the base's exact-key
\* bucket is MISSING with no copy when the fallback chain has no candidates,
\* and otherwise the destination of exactly one copy from the first candidate.
C2_FallbackCopy ==
    Diffed =>
        \A p \in DOMAIN fs_target_src :
            p \notin WithInfo(fs_base_src, fs_target_src[p]) =>
                LET cand == Candidates(fs_base_src, p, fs_target_src[p])
                IN  IF cand = None
                    THEN /\ p \in Range(printed)
                         /\ \A c \in Range(copies) : c.dst # p
                    ELSE /\ Cardinality({i \in DOMAIN copies : copies[i].dst = p}) = 1
                         /\ \A c \in Range(copies) :
                                c.dst = p => c.src = (CHOOSE b \in cand : TRUE)[1]

\* C3: the diff of a tree with itself emits no copy and reports nothing MISSING.
C3_Idempotent ==
    (Diffed /\ fs_base_src = fs_target_src) => (copies = <<>> /\ printed = <<>>)

C3_Witness ==
    /\ Diffed
    /\ fs_base_src = fs_target_src
    /\ \E p \in DOMAIN fs_base_src : \E q \in DOMAIN fs_base_src :
            p # q /\ fs_base_src[p] = fs_base_src[q]

\* The run of diff whose drain yields the buckets in ascending FileInfo order.
RECURSIVE InfosAscending(_)
InfosAscending(S) ==
    IF S = {} THEN <<>>
    ELSE LET m == CHOOSE x \in S : \A y \in S \ {x} : InfoLess(x, y)
         IN  <<m>> \o InfosAscending(S \ {m})

RECURSIVE RunPaths(_, _, _)
RunPaths(info, paths, acc) ==
    IF paths = <<>> THEN acc
    ELSE LET kind == Classify(base, Head(paths), info)
         IN  RunPaths(info, Tail(paths),
                [copies  |-> IF kind = "copy"
                             THEN Append(acc.copies, MakeCopy(base, Head(paths), info))
                             ELSE acc.copies,
                 printed |-> IF kind = "missing"
                             THEN Append(acc.printed, Head(paths))
                             ELSE acc.printed])

RECURSIVE RunBuckets(_, _, _)
RunBuckets(map, order, acc) ==
    IF order = <<>> THEN acc
    ELSE RunBuckets(map, Tail(order), RunPaths(Head(order), map[Head(order)], acc))

AscendingRun ==
    LET map == [i \in {fs_target_src[p] : p \in DOMAIN fs_target_src} |->
                    Ascending(WithInfo(fs_target_src, i))]
        r == RunBuckets(map, InfosAscending(DOMAIN map), [copies |-> <<>>, printed |-> <<>>])
    IN  [copies |-> SortCopies(r.copies), printed |-> r.printed]

\* C4: whatever order the hash map is drained in, the diff returns the same
\* copy list and prints the same MISSING lines in the same order as the run
\* that drains it in ascending order.
C4_Deterministic ==
    Diffed => (copies = AscendingRun.copies /\ printed = AscendingRun.printed)

\* C5 as stated: the returned copies are sorted by destination path.
C5_SortedByDst ==
    Diffed => \A i \in 1..(Len(copies) - 1) : PathLeq(copies[i].dst, copies[i + 1].dst)

\* C5 amended: the returned copies are sorted by (src, dst), the source path
\* first and the destination path among equal sources.
C5_SortedBySrcDst ==
    Diffed => \A i \in 1..(Len(copies) - 1) :
        copies[i] = copies[i + 1] \/ CopyLess(copies[i], copies[i + 1])

C5_Witness ==
    /\ Diffed
    /\ \E i \in 1..(Len(copies) - 1) : PathLess(copies[i + 1].dst, copies[i].dst)

\* C8: on every catalog scan_dir builds, get returns the exact bucket when a
\* file has that FileInfo, else the size bucket when a file has that length,
\* else the bucket of the path's file name when a file has that name, else
\* nothing; the bucket holds those files in ascending order and is not empty.
C8_GetFirstNonEmpty ==
    \A p \in QueryPaths : \A i \in FileInfo :
        /\ Get(base, p, i) = Candidates(fs_base_src, p, i)
        /\ \A b \in Get(base, p, i) : b # <<>>

\* diff is looking up a path that only the file name index knows.
C8_Witness ==
    /\ pc = "diff"
    /\ cur # None
    /\ WithInfo(fs_base_src, CurBucket.info) = {}
    /\ WithLen(fs_base_src, CurBucket.info.len) = {}
    /\ Get(base, Head(CurBucket.paths), CurBucket.info) # None

\* ------------------------------------------------- main, apply and dry-run
\* The two destination trees, <dst-base> and <dst-target>.
Roots == {"dst_base", "dst_target"}

\* Every place of a destination tree: the root, a directory, a file.
RelNodes == QueryPaths \cup {<<d>> : d \in DirNames}

AbsPaths == [root : Roots, rel : RelNodes]

\* What is on disk at a place: nothing, a directory, a file with its bytes.
Absent == [kind |-> "absent", data |-> <<>>]
Dir == [kind |-> "dir", data |-> <<>>]
File(data) == [kind |-> "file", data |-> data]

\* The bytes of a file that was in <dst-target> before the run.
OldData == <<0>>

\* A slip: the destination is resolved against <dst-base>.
DstPathInBase(copy) == [root |-> "dst_base", rel |-> copy.dst]

\* src_path = dir_base_dst.push(copy.src), dst_path = dir_target_dst.push(copy.dst).
SrcPath(copy) == [root |-> "dst_base", rel |-> copy.src]

DstPath(copy) == [root |-> "dst_target", rel |-> copy.dst]

\* The directories above a place, the root first: what create_dir_all ensures.
Ancestors(a) == [i \in 1..Len(a.rel) |-> [root |-> a.root, rel |-> SubSeq(a.rel, 1, i - 1)]]

\* A tree on disk holding the files of S, each with the bytes data[p].
TreeOnDisk(root, S, data, rootExists) ==
    [a \in {x \in AbsPaths : x.root = root} |->
        IF a.rel \in S THEN File(data[a.rel])
        ELSE IF \E p \in S : IsPrefix(a.rel, p) THEN Dir
        ELSE IF a.rel = <<>> /\ rootExists THEN Dir
        ELSE Absent]

\* The copy lists diff can return: sorted, no copy onto its own source, the
\* sources files of one tree, the destinations distinct files of one tree.
CopyLists ==
    {l \in UNION {[1..n -> CopyFile] : n \in 0..MaxCopies} :
        /\ \A i \in DOMAIN l : l[i].src # l[i].dst
        /\ \A i \in DOMAIN l : \A j \in DOMAIN l : i < j =>
                /\ CopyLess(l[i], l[j])
                /\ l[i].dst # l[j].dst
        /\ PrefixFree({l[i].src : i \in DOMAIN l})
        /\ PrefixFree({l[i].dst : i \in DOMAIN l})}

\* What ioctl(2) returns for FICLONE: 0, or -1 with errno set.
IoctlResults == {-1, 0}

\* A slip: the result of the ioctl is not looked at.
CloneFileRetAlwaysOk(result) == "ok"

\* clone_file's match on the result of the ioctl.
CloneFileRet(result) == IF result = -1 THEN "err" ELSE "ok"

\* A slip: the result of clone_paths is dropped and the loop goes on.
QuestionIgnored(result) == "loop"

\* The ? on clone_paths(...) in main's loop: an error returns from main.
Question(result) == IF result = "err" THEN "exit_err" ELSE "loop"

\* A slip: the destination is created before the source is opened.
NextStepCreateFirst(step) ==
    CASE step = "create_dir_all" -> "create_dst"
      [] step = "create_dst" -> "open_src"
      [] step = "open_src" -> "clone"

\* The order of the calls in clone_paths.
NextStep(step) ==
    CASE step = "create_dir_all" -> "open_src"
      [] step = "open_src" -> "create_dst"
      [] step = "create_dst" -> "clone"

\* The state after main has got the copies from diff, before its loop.
InitApply ==
    /\ copies \in CopyLists
    /\ dry_run \in BOOLEAN
    /\ \E present \in SUBSET {copies[i].src : i \in DOMAIN copies} :
       \E old \in {S \in SUBSET Paths : PrefixFree(S)} :
       \E rootExists \in {TRUE} \cup {old # {}} :
            fs = TreeOnDisk("dst_base", present, [p \in Paths |-> p], TRUE)
                 @@ TreeOnDisk("dst_target", old, [p \in Paths |-> OldData], rootExists)
    /\ fs0 = fs
    /\ fs_call = fs
    /\ pc = "loop"
    /\ idx = 1
    /\ steps = << >>
    /\ attempts = << >>
    /\ failed_at = 0
    /\ ioctl_result = None
    /\ clone_ret = "none"
    /\ out = << >>
    /\ fs_base_src = << >>
    /\ fs_target_src = << >>
    /\ base = EmptyScan
    /\ target = EmptyScan
    /\ cur = None
    /\ printed = << >>

\* dry-run: print the copy and go on.
LoopDryRun ==
    /\ pc = "loop"
    /\ idx <= Len(copies)
    /\ dry_run
    /\ out' = Append(out, [src |-> copies[idx].src, dst |-> copies[idx].dst])
    /\ idx' = idx + 1
    /\ UNCHANGED <<pc, fs, fs0, fs_call, steps, attempts, failed_at, ioctl_result, clone_ret>>
    /\ UNCHANGED <<dry_run, diffVars>>

\* apply: print the resolved paths and enter clone_paths.
LoopApply ==
    /\ pc = "loop"
    /\ idx <= Len(copies)
    /\ ~dry_run
    /\ out' = Append(out, [src |-> SrcPath(copies[idx]), dst |-> DstPath(copies[idx])])
    /\ attempts' = Append(attempts, idx)
    /\ fs_call' = fs
    /\ steps' = << >>
    /\ ioctl_result' = None
    /\ clone_ret' = "none"
    /\ pc' = "create_dir_all"
    /\ UNCHANGED <<idx, fs, fs0, failed_at>>
    /\ UNCHANGED <<dry_run, diffVars>>

\* The loop is over: main returns Ok(()).
LoopEnd ==
    /\ pc = "loop"
    /\ idx > Len(copies)
    /\ pc' = "exit_ok"
    /\ UNCHANGED <<idx, fs, fs0, fs_call, steps, attempts, failed_at, ioctl_result, clone_ret, out>>
    /\ UNCHANGED <<dry_run, diffVars>>

\* A call of clone_paths failed: clone_paths returns the error to main.
Fail(call) ==
    /\ steps' = Append(steps, [call |-> call, ok |-> FALSE])
    /\ failed_at' = idx
    /\ pc' = Question("err")
    /\ idx' = IF Question("err") = "loop" THEN idx + 1 ELSE idx

Pass(call) ==
    /\ steps' = Append(steps, [call |-> call, ok |-> TRUE])
    /\ pc' = NextStep(call)
    /\ UNCHANGED <<idx, failed_at>>

\* fs::create_dir_all(parent): the missing directories are made from the root
\* down; it stops at a file in the way, or at any mkdir that fails.
CreateDirAll ==
    /\ pc = "create_dir_all"
    /\ LET anc == Ancestors(DstPath(copies[idx]))
       IN  \E k \in 0..Len(anc) :
            /\ \A i \in 1..k : fs[anc[i]].kind # "file"
            /\ fs' = [a \in DOMAIN fs |->
                        IF \E i \in 1..k : anc[i] = a THEN Dir ELSE fs[a]]
            /\ IF k = Len(anc) THEN Pass("create_dir_all") ELSE Fail("create_dir_all")
    /\ UNCHANGED <<fs0, fs_call, attempts, ioctl_result, clone_ret, out, copies>>
    /\ UNCHANGED <<dry_run, fs_base_src, fs_target_src, base, target, cur, printed>>

\* fs::File::open(src).
OpenSrcOk ==
    /\ pc = "open_src"
    /\ fs[SrcPath(copies[idx])].kind # "absent"
    /\ Pass("open_src")
    /\ UNCHANGED <<fs, fs0, fs_call, attempts, ioctl_result, clone_ret, out>>
    /\ UNCHANGED <<dry_run, diffVars>>

OpenSrcErr ==
    /\ pc = "open_src"
    /\ Fail("open_src")
    /\ UNCHANGED <<fs, fs0, fs_call, attempts, ioctl_result, clone_ret, out>>
    /\ UNCHANGED <<dry_run, diffVars>>

\* fs::File::create(dst): the file is created, or truncated when it exists.
CreateDstOk ==
    /\ pc = "create_dst"
    /\ fs[DstPath(copies[idx])].kind # "dir"
    /\ fs' = [fs EXCEPT ![DstPath(copies[idx])] = File(<<>>)]
    /\ Pass("create_dst")
    /\ UNCHANGED <<fs0, fs_call, attempts, ioctl_result, clone_ret, out>>
    /\ UNCHANGED <<dry_run, diffVars>>

CreateDstErr ==
    /\ pc = "create_dst"
    /\ Fail("create_dst")
    /\ UNCHANGED <<fs, fs0, fs_call, attempts, ioctl_result, clone_ret, out>>
    /\ UNCHANGED <<dry_run, diffVars>>

\* clone_file: the FICLONE ioctl; on 0 dst shares the bytes of src. What
\* clone_file returns is what clone_paths returns to main.
CloneFile ==
    /\ pc = "clone"
    /\ \E result \in IoctlResults :
        /\ result = 0 => fs[SrcPath(copies[idx])].kind = "file"
        /\ ioctl_result' = Some(result)
        /\ clone_ret' = CloneFileRet(result)
        /\ fs' = IF result = 0
                 THEN [fs EXCEPT ![DstPath(copies[idx])] =
                            File(fs[SrcPath(copies[idx])].data)]
                 ELSE fs
        /\ steps' = Append(steps, [call |-> "clone", ok |-> result = 0])
        /\ failed_at' = IF CloneFileRet(result) = "err" THEN idx ELSE failed_at
        /\ pc' = Question(CloneFileRet(result))
        /\ idx' = IF Question(CloneFileRet(result)) = "loop" THEN idx + 1 ELSE idx
    /\ UNCHANGED <<fs0, fs_call, attempts, out>>
    /\ UNCHANGED <<dry_run, diffVars>>

NextApply ==
    \/ LoopDryRun \/ LoopApply \/ LoopEnd
    \/ CreateDirAll
    \/ OpenSrcOk \/ OpenSrcErr
    \/ CreateDstOk \/ CreateDstErr
    \/ CloneFile

SpecApply == InitApply /\ [][NextApply]_vars

\* ------------------------------------------------- properties of the apply
CallOrder == <<"create_dir_all", "open_src", "create_dst", "clone">>

\* The call of clone_paths at position i of steps failed.
Failed(call) == \E i \in DOMAIN steps : steps[i].call = call /\ ~steps[i].ok

Passed(call) == \E i \in DOMAIN steps : steps[i].call = call /\ steps[i].ok

\* C6: clone_paths is invoked for the copies one by one in list order, never
\* in dry-run mode; once an invocation fails no later copy is attempted,
\* nothing is retried and main ends with the error, and main ends with
\* success only when no invocation failed and, in apply mode, every copy was
\* attempted.
C6_FirstFailureAborts ==
    /\ \A i \in DOMAIN attempts : attempts[i] = i
    /\ Len(attempts) <= Len(copies)
    /\ dry_run => attempts = <<>>
    /\ failed_at # 0 => (pc = "exit_err" /\ Len(attempts) = failed_at)
    /\ pc = "exit_err" => failed_at # 0
    /\ pc = "exit_ok" => (failed_at = 0 /\ (~dry_run => Len(attempts) = Len(copies)))

\* The first of two copies failed and the second was never attempted.
C6_Witness ==
    /\ pc = "exit_err"
    /\ failed_at = 1
    /\ Len(copies) = 2
    /\ attempts = <<1>>

\* C7 as stated: a dry run changes nothing on disk, and an apply run changes
\* only places that held nothing before the run: no file that existed before
\* the run has its content changed.
C7_OnlyNewFiles ==
    /\ dry_run => fs = fs0
    /\ \A a \in DOMAIN fs : fs[a] # fs0[a] =>
            /\ a.root = "dst_target"
            /\ fs0[a].kind = "absent"

\* C7 amended: a dry run changes nothing on disk; an apply run changes only
\* <dst-target>: the destination of a copy it attempted, which becomes a
\* file whether it held nothing or a file before (an existing destination is
\* truncated and overwritten), and missing directories above it.
C7_OnlyDestinations ==
    /\ dry_run => fs = fs0
    /\ \A a \in DOMAIN fs : fs[a] # fs0[a] =>
            /\ a.root = "dst_target"
            /\ \E i \in DOMAIN attempts :
                \/ /\ a = DstPath(copies[i])
                   /\ fs0[a].kind # "dir"
                   /\ fs[a].kind = "file"
                \/ /\ a # DstPath(copies[i])
                   /\ IsPrefix(a.rel, copies[i].dst)
                   /\ fs0[a].kind = "absent"
                   /\ fs[a].kind = "dir"

\* An apply run ended well after it overwrote a file that was in <dst-target>.
C7_Witness ==
    /\ pc = "exit_ok"
    /\ ~dry_run
    /\ \E a \in DOMAIN fs :
        /\ fs0[a] = File(OldData)
        /\ fs[a].kind = "file"
        /\ fs[a].data \notin {OldData, <<>>}

\* C9: clone_paths makes its calls in the order create_dir_all, open src,
\* create dst, clone; a failed call is its last call and main gets the error;
\* nothing is undone: the directories made stay, when the clone fails after
\* dst was created the empty dst stays, and when opening src fails dst is as
\* it was when clone_paths was entered.
C9_StepsInOrder ==
    /\ Len(steps) <= Len(CallOrder)
    /\ \A i \in DOMAIN steps : steps[i].call = CallOrder[i]
    /\ \A i \in DOMAIN steps : ~steps[i].ok => (i = Len(steps) /\ pc = "exit_err")
    /\ steps # <<>> =>
        LET dst == DstPath(copies[attempts[Len(attempts)]])
            anc == Ancestors(dst)
        IN  /\ Failed("open_src") => fs[dst] = fs_call[dst]
            /\ Failed("create_dst") => fs[dst] = fs_call[dst]
            /\ (Passed("create_dst") /\ Failed("clone")) => fs[dst] = File(<<>>)
            /\ Passed("create_dir_all") => \A i \in DOMAIN anc : fs[anc[i]] = Dir
            /\ \A a \in DOMAIN fs : fs_call[a].kind # "absent" => fs[a].kind # "absent"

\* The clone failed on a destination that clone_paths had just created in a
\* directory it had just made.
C9_Witness ==
    /\ pc = "exit_err"
    /\ Passed("create_dst")
    /\ Failed("clone")
    /\ fs_call[DstPath(copies[idx])] = Absent
    /\ \E a \in DOMAIN fs : fs_call[a] = Absent /\ fs[a] = Dir

====
